---- MODULE Spec2Model ----
(***************************************************************************)
(* tbox child-process lifecycle (src/tbox/platform/posix/process.c):       *)
(* tb_process_init, tb_process_wait, tb_process_waitlist, the signal       *)
(* controller, and the demo driver (src/demo/platform/process.c).          *)
(***************************************************************************)
EXTENDS Integers, Sequences, FiniteSets, TLC

(* ------------------------------ bounds --------------------------------- *)

\* number of tb_process_init calls made by the caller (handles ever allocated)
MaxProcs == 3
\* largest infomaxn passed to tb_process_waitlist
MaxInfo == 2

(* ------------------------- platform constants -------------------------- *)

SIGABRT == 6
SIGKILL == 9
SIGCONT == 18
SIGSTOP == 19
STDIN_FILENO == 0
STDOUT_FILENO == 1
STDERR_FILENO == 2

\* the exit codes a child program passes to exit()
ExitCodes == {0, 259}
\* opaque private data values of tb_process_attr_t.priv
Privs == {0, 1}
\* timeouts of the non-sleeping dispatch: block (< 0) and one attempt (== 0)
Timeouts == {-1, 0}

\* the demo driver spawns this many processes (count1 < 4) and passes an
\* infolist of as many records
DemoCount == 4

\* room for the handles and children of every driver
Slots == IF MaxProcs > DemoCount THEN MaxProcs ELSE DemoCount
Handles == 1..Slots
Pids == 1..Slots

VARIABLES
    config,     \* build configuration (fixed at compile time)
    caller,     \* the calling process: "running" | "exited" | "aborted"
    fds,        \* the calling process's descriptor table
    handles,    \* handle -> tb_process_t (pid, priv) and its allocation state
    procs,      \* kernel process table of the caller's children, by pid
    call,       \* the last step: the API call completed, its arguments and results
    lost,       \* pids whose exit status a tb_process_waitlist discarded
    dpc,        \* demo driver: position
    processes1, \* demo driver: the null-terminated handle array
    infolist,   \* demo driver: the records of the last tb_process_waitlist
    records,    \* demo driver: every WaitInfo consumed so far
    wloop,      \* the tb_process_wait polling loop in progress (timeout > 0)
    sched,      \* the coroutine scheduler: build, running task, wait registrations
    tok,        \* tb_process_init_cmd: the command given and what was made of it
    pipe        \* the pipe demo: position, bytes written, in flight and read

vars == <<config, caller, fds, handles, procs, call, lost, dpc, processes1, infolist, records,
          wloop, sched, tok, pipe>>

\* the parts of the state a specification does not use stay at rest
AtRest == [on |-> FALSE]
AllAtRest == wloop = AtRest /\ sched = AtRest /\ tok = AtRest /\ pipe = AtRest
NoAux == UNCHANGED <<wloop, sched, tok, pipe>>

(* ------------------------- wait status words --------------------------- *)

\* <sys/wait.h> encoding of the status word filled in by waitpid
W_EXITCODE(code) == (code % 256) * 256
W_TERMSIG(sig) == sig
W_STOPCODE(sig) == sig * 256 + 127

WIFEXITED(ws) == ws % 128 = 0
WEXITSTATUS(ws) == (ws \div 256) % 256

\* WIFEXITED(status)? WEXITSTATUS(status) : -1
SaveStatusRaw(ws) == IF WIFEXITED(ws) THEN WEXITSTATUS(ws) ELSE ws
SaveStatus(ws) == IF WIFEXITED(ws) THEN WEXITSTATUS(ws) ELSE -1


(* ------------------------ kernel process table ------------------------- *)

\* st: "none" (no such process), "running", "stopped" (stop not yet reported
\* to the parent), "stopseen" (stopped, stop already reported), "zombie",
\* "reaped".  ws: the status word of a zombie.  how/arg: what ended it
\* ("exit" with the exit() argument, "signal" with the signal number).
\* image: what it executes ("program" after exec, "caller" for a duplicate of
\* the calling process that still runs the caller's code).
NoChild == [st |-> "none", ws |-> 0, how |-> "none", arg |-> 0, image |-> "none"]
Reaped == [st |-> "reaped", ws |-> 0, how |-> "none", arg |-> 0, image |-> "none"]
Running(image) == [st |-> "running", ws |-> 0, how |-> "none", arg |-> 0, image |-> image]
\* a child that called exit(code) / _exit(code)
Exited(code) == [st |-> "zombie", ws |-> W_EXITCODE(code), how |-> "exit", arg |-> code, image |-> "none"]
\* a child terminated by signal sig
Killed(sig) == [st |-> "zombie", ws |-> W_TERMSIG(sig), how |-> "signal", arg |-> sig, image |-> "none"]

Alive(P, p) == P[p].st \in {"running", "stopped", "stopseen"}
Children(P) == {p \in Pids : Alive(P, p) \/ P[p].st = "zombie"}

\* waitpid's pid argument: > 0 that child, -1 any child, 0 any child of the
\* caller's process group (no spawn path moves the child to another group)
Selected(P, pid) == IF pid > 0 THEN Children(P) \cap {pid} ELSE Children(P)

Reportable(P, c, options) ==
    \/ P[c].st = "zombie"
    \/ "WUNTRACED" \in options /\ P[c].st = "stopped"

\* the table after waitpid has returned child c
Collect(P, c) ==
    IF P[c].st = "zombie" THEN [P EXCEPT ![c] = Reaped]
    ELSE [P EXCEPT ![c].st = "stopseen"]

\* waitpid(pid, &status, options): the set of possible returns; empty when
\* the call blocks.  status stays at its initial -1 unless a child is returned.
waitpid(P, pid, options) ==
    LET sel == Selected(P, pid)
        rdy == {c \in sel : Reportable(P, c, options)}
    IN  IF sel = {} THEN {[result |-> -1, status |-> -1, rst |-> "none", how |-> "none", arg |-> 0, procs |-> P]}
        ELSE IF rdy # {}
        THEN {[result |-> c,
               status |-> IF P[c].st = "zombie" THEN P[c].ws ELSE W_STOPCODE(SIGSTOP),
               rst |-> P[c].st, how |-> P[c].how, arg |-> P[c].arg,
               procs |-> Collect(P, c)] : c \in rdy}
        ELSE IF "WNOHANG" \in options
        THEN {[result |-> 0, status |-> -1, rst |-> "none", how |-> "none", arg |-> 0, procs |-> P]}
        ELSE {}

\* kill(pid, sig) on the process table
Signal(P, pid, sig) ==
    IF pid \notin Pids \/ ~Alive(P, pid) THEN P
    ELSE IF sig = SIGKILL
    THEN [P EXCEPT ![pid] = Killed(SIGKILL)]
    ELSE IF sig = SIGSTOP
    THEN [P EXCEPT ![pid].st = IF @ = "running" THEN "stopped" ELSE @]
    ELSE [P EXCEPT ![pid].st = "running"]

(* ------------------------------ handles -------------------------------- *)

\* tb_process_t.  mem: "unused" | "live" | "freed".  child is the pid the
\* spawn created for this handle (kept for the properties; never read by code).
NoHandle == [mem |-> "unused", pid |-> 0, priv |-> 0, child |-> 0]

LiveHandles == {h \in Handles : handles[h].mem = "live"}

\* timeout < 0? 0 : WNOHANG | WUNTRACED
WaitOptionsBlocking(timeout) == {}
WaitOptions(timeout) == IF timeout < 0 THEN {} ELSE {"WNOHANG", "WUNTRACED"}

(* --------------------------- descriptors ------------------------------- *)

\* a descriptor table maps each descriptor to what it refers to, or "closed"
MaxFd == 7
Fds == 0..MaxFd

\* tb_pipefile2fd(file): file? file - 1 : -1 (tb_file2fd alike)
tb_pipefile2fdRaw(file) == IF file # 0 THEN file ELSE -1
tb_pipefile2fd(file) == IF file # 0 THEN file - 1 ELSE -1

dup2(F, from, to) ==
    IF from \notin Fds \/ F[from] = "closed" THEN F ELSE [F EXCEPT ![to] = F[from]]
close(F, fd) == IF fd \notin Fds THEN F ELSE [F EXCEPT ![fd] = "closed"]
\* open(): the lowest unused descriptor, -1 when the path cannot be opened
open(F, ok) ==
    IF ~ok \/ \A fd \in Fds : F[fd] # "closed" THEN -1
    ELSE CHOOSE fd \in Fds : F[fd] = "closed" /\ \A g \in Fds : g < fd => F[g] # "closed"

(* ---------------------------- attributes ------------------------------- *)

\* one redirect of tb_process_attr_t: outtype/outpath/outpipe/outfile
NoRedirect == [type |-> "NONE", path |-> "", obj |-> 0]
Redirects ==
    {NoRedirect,
     [type |-> "FILEPATH", path |-> "log", obj |-> 0],
     [type |-> "PIPE", path |-> "", obj |-> 6],
     [type |-> "FILE", path |-> "", obj |-> 7]}

\* attr == tb_null
NullAttr == [null |-> TRUE, priv |-> 0, suspend |-> FALSE, out |-> NoRedirect, err |-> NoRedirect]
Attrs ==
    {NullAttr} \cup
    [null : {FALSE}, priv : Privs, suspend : BOOLEAN, out : Redirects, err : Redirects]
\* attributes without redirection or flags, as the demo driver fills them
PlainAttrs == {a \in Attrs : ~a.null /\ a.priv = 1 /\ a.out = NoRedirect /\ a.err = NoRedirect /\ ~a.suspend}

\* what the platform answers during one spawn
OsAnswers == [fork_ok : BOOLEAN, spawn_ok : BOOLEAN, addopen_ok : BOOLEAN, open_ok : BOOLEAN, exec_ok : BOOLEAN]
NominalOs == [fork_ok |-> TRUE, spawn_ok |-> TRUE, addopen_ok |-> TRUE, open_ok |-> TRUE, exec_ok |-> TRUE]

\* compile-time configuration: TB_CONFIG_POSIX_HAVE_POSIX_SPAWNP,
\* POSIX_SPAWN_START_SUSPENDED, __tb_debug__ (assertions abort)
Configs ==
    [strategy : {"posix_spawnp"}, start_suspended : BOOLEAN, debug : BOOLEAN] \cup
    [strategy : {"fork"}, start_suspended : {FALSE}, debug : BOOLEAN]

(* --------------------------- tb_process_init --------------------------- *)

\* the redirect is taken: FILEPATH with a path, or PIPE/FILE with an object
IsPath(r) == r.type = "FILEPATH" /\ r.path # ""
IsDesc(r) == r.type \in {"PIPE", "FILE"} /\ r.obj # 0

\* the file actions one redirect adds to spawn_action
RedirectActionsNoClose(r, target) ==
    IF IsPath(r)
    THEN <<[a |-> "open", fd |-> target, to |-> target, path |-> r.path]>>
    ELSE IF IsDesc(r)
    THEN <<[a |-> "dup2", fd |-> tb_pipefile2fd(r.obj), to |-> target, path |-> ""]>>
    ELSE <<>>
RedirectActions(r, target) ==
    IF IsPath(r)
    THEN <<[a |-> "open", fd |-> target, to |-> target, path |-> r.path]>>
    ELSE IF IsDesc(r)
    THEN <<[a |-> "dup2", fd |-> tb_pipefile2fd(r.obj), to |-> target, path |-> ""],
           [a |-> "close", fd |-> tb_pipefile2fd(r.obj), to |-> target, path |-> ""]>>
    ELSE <<>>

\* posix_spawnp performs the file actions in order in the new process; the
\* spawn fails at the first action that fails
RECURSIVE RunActions(_, _, _)
RunActions(acts, F, os) ==
    IF acts = <<>> THEN [ok |-> TRUE, fds |-> F]
    ELSE LET x == Head(acts)
         IN  IF x.a = "open"
             THEN IF os.open_ok THEN RunActions(Tail(acts), [F EXCEPT ![x.fd] = x.path], os)
                  ELSE [ok |-> FALSE, fds |-> F]
             ELSE IF x.a = "dup2"
             THEN IF x.fd \in Fds /\ F[x.fd] # "closed"
                  THEN RunActions(Tail(acts), dup2(F, x.fd, x.to), os)
                  ELSE [ok |-> FALSE, fds |-> F]
             ELSE RunActions(Tail(acts), close(F, x.fd), os)

\* what one call of tb_process_init leaves behind.  caller: the calling
\* process after the call; ret: a handle was returned; released: the partly
\* built handle went through tb_process_exit; child: the process created, if
\* any; cfds: the descriptor table the created process ended its setup with.
InitFailed(F) ==
    [caller |-> "running", ret |-> FALSE, pid |-> 0, released |-> TRUE,
     child |-> NoChild, cfds |-> F]
InitAborted(F) ==
    [caller |-> "aborted", ret |-> FALSE, pid |-> 0, released |-> FALSE,
     child |-> NoChild, cfds |-> F]

\* lines 136-236: TB_CONFIG_POSIX_HAVE_POSIX_SPAWNP
tb_process_init_spawnp(cfg, attr, os, F, newpid) ==
    LET acts == RedirectActions(attr.out, STDOUT_FILENO) \o RedirectActions(attr.err, STDERR_FILENO)
        addopen_failed == (IsPath(attr.out) \/ IsPath(attr.err)) /\ ~os.addopen_ok
        suspended == attr.suspend /\ cfg.start_suspended
        run == RunActions(acts, F, os)
        status_ok == os.spawn_ok /\ os.exec_ok /\ run.ok
    IN  IF addopen_failed THEN InitFailed(F)
        ELSE IF attr.suspend /\ ~cfg.start_suspended /\ cfg.debug THEN InitAborted(F)
        ELSE IF ~status_ok THEN InitFailed(F)
        ELSE [caller |-> "running", ret |-> TRUE, pid |-> newpid, released |-> FALSE,
              child |-> [Running("program") EXCEPT !.st = IF suspended THEN "stopped" ELSE "running"],
              cfds |-> run.fds]

\* one redirect applied by hand in the duplicate (lines 281-298, 301-318).
\* brk: the check after open() left the switch.
RedirectInChild(r, target, F, os) ==
    IF IsPath(r)
    THEN LET fd == open(F, os.open_ok)
             F1 == IF fd \in Fds THEN [F EXCEPT ![fd] = r.path] ELSE F
         IN  IF fd = 0 THEN [brk |-> TRUE, fds |-> F1]
             ELSE [brk |-> FALSE, fds |-> close(dup2(F1, fd, target), fd)]
    ELSE IF IsDesc(r)
    THEN [brk |-> FALSE,
          fds |-> close(dup2(F, tb_pipefile2fd(r.obj), target), tb_pipefile2fd(r.obj))]
    ELSE [brk |-> FALSE, fds |-> F]

\* the duplicate after leaving the switch by break: process->pid is 0, so
\* the pid check fails (line 375), the handle is released and the duplicate
\* returns tb_null to the caller's code (lines 383-391)
AfterSwitchInChild(cfg, F) ==
    IF cfg.debug THEN [fate |-> "abort", fds |-> F] ELSE [fate |-> "caller", fds |-> F]

\* lines 271-367: the branch the duplicate executes
ForkChild(cfg, attr, os, F) ==
    IF cfg.debug /\ attr.suspend THEN [fate |-> "abort", fds |-> F]
    ELSE LET s1 == RedirectInChild(attr.out, STDOUT_FILENO, F, os)
             s2 == RedirectInChild(attr.err, STDERR_FILENO, s1.fds, os)
         IN  IF s1.brk THEN AfterSwitchInChild(cfg, s1.fds)
             ELSE IF s2.brk THEN AfterSwitchInChild(cfg, s2.fds)
             ELSE IF os.exec_ok THEN [fate |-> "exec", fds |-> s2.fds]
             ELSE [fate |-> "_exit", fds |-> s2.fds]

\* lines 238-392: fork (or vfork) then exec
tb_process_init_fork(cfg, attr, os, F, newpid) ==
    IF ~os.fork_ok
    THEN [caller |-> "exited", ret |-> FALSE, pid |-> -1, released |-> FALSE,
          child |-> NoChild, cfds |-> F]
    ELSE LET c == ForkChild(cfg, attr, os, F)
         IN  [caller |-> "running", ret |-> TRUE, pid |-> newpid, released |-> FALSE,
              child |-> CASE c.fate = "exec" -> Running("program")
                          [] c.fate = "caller" -> Running("caller")
                          [] c.fate = "_exit" -> Exited(-1)
                          [] OTHER -> Killed(SIGABRT),
              cfds |-> c.fds]

tb_process_init(cfg, attr, os, F, newpid) ==
    IF cfg.strategy = "posix_spawnp" THEN tb_process_init_spawnp(cfg, attr, os, F, newpid)
    ELSE tb_process_init_fork(cfg, attr, os, F, newpid)

(* ------------------------------ actions -------------------------------- *)

NoCall == [op |-> "none"]

\* tb_malloc0_type hands out the next unused handle; the kernel the next pid
NewHandle == CHOOSE h \in Handles : handles[h].mem = "unused" /\ \A g \in Handles : g < h => handles[g].mem # "unused"
NewPid == CHOOSE p \in Pids : procs[p].st = "none" /\ \A q \in Pids : q < p => procs[q].st # "none"

\* the number of tb_process_init calls made so far
Allocated == Cardinality({h \in Handles : handles[h].mem # "unused"})

\* tb_process_init(pathname, argv, attr), seen from the calling process
Spawn(attr, os) ==
    /\ caller = "running"
    /\ \E h \in Handles : handles[h].mem = "unused"
    /\ \E p \in Pids : procs[p].st = "none"
    /\ LET h == NewHandle
           o == tb_process_init(config, attr, os, fds, NewPid)
       IN  /\ handles' = [handles EXCEPT ![h] =
                            [mem |-> IF o.released THEN "freed" ELSE "live",
                             pid |-> o.pid, priv |-> attr.priv,
                             child |-> IF o.child.st # "none" THEN NewPid ELSE 0]]
           /\ procs' = IF o.child.st # "none" THEN [procs EXCEPT ![NewPid] = o.child] ELSE procs
           /\ caller' = o.caller
           /\ call' = [op |-> "init", h |-> h, attr |-> attr, os |-> os, out |-> o]
    /\ UNCHANGED <<config, fds, lost>>

\* a running child calls exit(code)
ChildExit(p, code) ==
    /\ procs[p].st = "running"
    /\ procs' = [procs EXCEPT ![p] = Exited(code)]
    /\ call' = [op |-> "exit", pid |-> p]
    /\ UNCHANGED <<config, caller, fds, handles, lost>>

\* lines 560-576, 593-626: kill(process->pid, sig) if process->pid > 0
SendSignal(name, h, sig) ==
    /\ caller = "running"
    /\ handles[h].mem = "live"
    /\ LET pid == handles[h].pid
       IN  IF pid > 0
           THEN /\ procs' = Signal(procs, pid, sig)
                /\ call' = [op |-> name, h |-> h, sent |-> TRUE, sig |-> sig, to |-> pid,
                            tst |-> IF pid \in Pids THEN procs[pid].st ELSE "none"]
           ELSE /\ procs' = procs
                /\ call' = [op |-> name, h |-> h, sent |-> FALSE, sig |-> sig, to |-> 0, tst |-> "none"]
    /\ UNCHANGED <<config, caller, fds, handles, lost>>

tb_process_kill(h) == SendSignal("kill", h, SIGKILL)
tb_process_resume(h) == SendSignal("resume", h, SIGCONT)
tb_process_suspend(h) == SendSignal("suspend", h, SIGSTOP)

\* lines 653-675: what tb_process_wait makes of waitpid's return.
\* ret: the return value; wrote: *pstatus was assigned; clear: pid was zeroed
WaitReturnUnchecked(w) ==
    IF w.result # 0
    THEN [ret |-> 1, wrote |-> TRUE, status |-> SaveStatus(w.status), clear |-> TRUE]
    ELSE [ret |-> 0, wrote |-> FALSE, status |-> 0, clear |-> FALSE]
WaitReturn(w) ==
    IF w.result = -1
    THEN [ret |-> -1, wrote |-> FALSE, status |-> 0, clear |-> FALSE]
    ELSE IF w.result # 0
    THEN [ret |-> 1, wrote |-> TRUE, status |-> SaveStatus(w.status), clear |-> TRUE]
    ELSE [ret |-> 0, wrote |-> FALSE, status |-> 0, clear |-> FALSE]

\* lines 627-684, outside a coroutine, timeout <= 0: one waitpid
tb_process_wait(h, timeout) ==
    /\ caller = "running"
    /\ handles[h].mem = "live"
    /\ \E w \in waitpid(procs, handles[h].pid, WaitOptions(timeout)) :
         LET r == WaitReturn(w)
         IN  /\ call' = [op |-> "wait", h |-> h, timeout |-> timeout, pid |-> handles[h].pid,
                         own |-> IF handles[h].child \in Pids THEN procs[handles[h].child].st ELSE "none",
                         result |-> w.result, rst |-> w.rst, how |-> w.how, arg |-> w.arg,
                         ret |-> r.ret, wrote |-> r.wrote, status |-> r.status]
             /\ handles' = IF r.clear THEN [handles EXCEPT ![h].pid = 0] ELSE handles
             /\ procs' = w.procs
    /\ UNCHANGED <<config, caller, fds, lost>>

(* ------------------------- tb_process_waitlist ------------------------- *)

\* for (; *pprocess && (*pprocess)->pid != result; pprocess++) ;
\* the 0-based position reached; Len(set) is the terminating null
RECURSIVE ScanFrom(_, _, _, _)
ScanFrom(Hs, set, result, i) ==
    IF i >= Len(set) THEN Len(set)
    ELSE IF Hs[set[i + 1]].pid = result THEN i
    ELSE ScanFrom(Hs, set, result, i + 1)

FindProcess(Hs, set, result) == ScanFrom(Hs, set, result, 0)

\* infolist[infosize] for the child waitpid returned (pid is kept for the
\* properties only)
WaitInfoNoIndex(Hs, set, w) ==
    [index |-> 0,
     process |-> set[FindProcess(Hs, set, w.result) + 1],
     status |-> SaveStatus(w.status), pid |-> w.result]
WaitInfo(Hs, set, w) ==
    [index |-> FindProcess(Hs, set, w.result),
     process |-> set[FindProcess(Hs, set, w.result) + 1],
     status |-> SaveStatus(w.status), pid |-> w.result]

\* the pids a reap returned without a match in the set, and those of them
\* that had terminated (their status is gone with the reap)
Unmatched(w) == IF w.result > 0 THEN {w.result} ELSE {}
Discarded(w) == IF w.result > 0 /\ w.rst = "zombie" THEN {w.result} ELSE {}

\* lines 716-740: the drain loop after the first match; every way it can end.
\* list: infolist so far; reaps: the pids waitpid returned, in order (kept
\* for the properties only)
RECURSIVE Drain(_, _, _, _, _, _)
DrainOffByOne(Hs, P, list, reaps, set, infomaxn) ==
    IF Len(list) > infomaxn
    THEN {[procs |-> P, list |-> list, reaps |-> reaps, unmatched |-> {}, disc |-> {}]}
    ELSE UNION {
           IF w.result = 0
           THEN {[procs |-> P, list |-> list, reaps |-> reaps, unmatched |-> {}, disc |-> {}]}
           ELSE IF FindProcess(Hs, set, w.result) < Len(set)
           THEN Drain(Hs, w.procs, Append(list, WaitInfo(Hs, set, w)), Append(reaps, w.result), set, infomaxn)
           ELSE {[procs |-> w.procs, list |-> list, reaps |-> reaps,
                  unmatched |-> Unmatched(w), disc |-> Discarded(w)]}
         : w \in waitpid(P, -1, {"WNOHANG", "WUNTRACED"})}
DrainForgets(Hs, P, list, reaps, set, infomaxn) ==
    IF Len(list) >= infomaxn
    THEN {[procs |-> P, list |-> list, reaps |-> reaps, unmatched |-> {}, disc |-> {}]}
    ELSE UNION {
           IF w.result = 0
           THEN {[procs |-> P, list |-> list, reaps |-> reaps, unmatched |-> {}, disc |-> {}]}
           ELSE IF FindProcess(Hs, set, w.result) < Len(set)
           THEN Drain(Hs, w.procs, Append(list, WaitInfo(Hs, set, w)), Append(reaps, w.result), set, infomaxn)
           ELSE {[procs |-> w.procs, list |-> <<>>, reaps |-> reaps,
                  unmatched |-> Unmatched(w), disc |-> Discarded(w)]}
         : w \in waitpid(P, -1, {"WNOHANG", "WUNTRACED"})}
Drain(Hs, P, list, reaps, set, infomaxn) ==
    IF Len(list) >= infomaxn
    THEN {[procs |-> P, list |-> list, reaps |-> reaps, unmatched |-> {}, disc |-> {}]}
    ELSE UNION {
           IF w.result = 0
           THEN {[procs |-> P, list |-> list, reaps |-> reaps, unmatched |-> {}, disc |-> {}]}
           ELSE IF FindProcess(Hs, set, w.result) < Len(set)
           THEN Drain(Hs, w.procs, Append(list, WaitInfo(Hs, set, w)), Append(reaps, w.result), set, infomaxn)
           ELSE {[procs |-> w.procs, list |-> list, reaps |-> reaps,
                  unmatched |-> Unmatched(w), disc |-> Discarded(w)]}
         : w \in waitpid(P, -1, {"WNOHANG", "WUNTRACED"})}

\* lines 685-756 with timeout <= 0: every way one call can run.
\* ret: the return value; list: the records written to infolist.
WaitlistRuns(Hs, P, set, infomaxn, timeout) ==
    IF infomaxn = 0
    THEN {[ret |-> -1, procs |-> P, list |-> <<>>, reaps |-> <<>>, unmatched |-> {}, disc |-> {}]}
    ELSE UNION {
           IF w.result = -1
           THEN {[ret |-> -1, procs |-> P, list |-> <<>>, reaps |-> <<>>, unmatched |-> {}, disc |-> {}]}
           ELSE IF w.result = 0
           THEN {[ret |-> 0, procs |-> P, list |-> <<>>, reaps |-> <<>>, unmatched |-> {}, disc |-> {}]}
           ELSE IF FindProcess(Hs, set, w.result) < Len(set)
           THEN {[ret |-> Len(d.list), procs |-> d.procs, list |-> d.list, reaps |-> d.reaps,
                  unmatched |-> d.unmatched, disc |-> d.disc]
                 : d \in Drain(Hs, w.procs, <<WaitInfo(Hs, set, w)>>, <<w.result>>, set, infomaxn)}
           ELSE {[ret |-> 0, procs |-> w.procs, list |-> <<>>, reaps |-> <<>>,
                  unmatched |-> Unmatched(w), disc |-> Discarded(w)]}
         : w \in waitpid(P, -1, WaitOptions(timeout))}

\* the handle arrays a caller submits: live handles in allocation order
RECURSIVE SubSeqs(_)
SubSeqs(s) ==
    IF s = <<>> THEN {<<>>}
    ELSE LET rest == SubSeqs(Tail(s))
         IN  rest \cup {<<Head(s)>> \o r : r \in rest}
RECURSIVE Ascending(_)
Ascending(S) ==
    IF S = {} THEN <<>>
    ELSE LET m == CHOOSE x \in S : \A y \in S : x <= y
         IN  <<m>> \o Ascending(S \ {m})
HandleSets == SubSeqs(Ascending(LiveHandles))

tb_process_waitlist(set, infomaxn, timeout) ==
    /\ caller = "running"
    /\ \E r \in WaitlistRuns(handles, procs, set, infomaxn, timeout) :
         /\ procs' = r.procs
         /\ lost' = lost \cup r.disc
         /\ call' = [op |-> "waitlist", set |-> set, infomaxn |-> infomaxn, timeout |-> timeout,
                     ret |-> r.ret, list |-> r.list, reaps |-> r.reaps,
                     unmatched |-> r.unmatched, disc |-> r.disc,
                     zombies |-> {p \in Pids : procs[p].st = "zombie"}]
    /\ UNCHANGED <<config, caller, fds, handles>>

(* --------------------------- specification ----------------------------- *)

StdFds == [fd \in Fds |->
             IF fd = STDIN_FILENO THEN "stdin"
             ELSE IF fd = STDOUT_FILENO THEN "stdout"
             ELSE IF fd = STDERR_FILENO THEN "stderr"
             ELSE IF fd = 5 THEN "pipe"
             ELSE IF fd = 6 THEN "file"
             ELSE "closed"]

\* the builds a spawn without flags can tell apart
PlainConfigs == {c \in Configs : ~c.debug /\ ~c.start_suspended}

Init ==
    /\ config \in PlainConfigs
    /\ caller = "running"
    /\ fds = StdFds
    /\ handles = [h \in Handles |-> NoHandle]
    /\ procs = [p \in Pids |-> NoChild]
    /\ call = NoCall
    /\ lost = {}
    /\ dpc = "idle"
    /\ processes1 = <<>>
    /\ infolist = <<>>
    /\ records = <<>>
    /\ AllAtRest

\* the platform answers of a spawn without redirection: all well, or the
\* process creation itself fails
SpawnOs == {NominalOs, [NominalOs EXCEPT !.fork_ok = FALSE, !.spawn_ok = FALSE]}

NoDriver == UNCHANGED <<dpc, processes1, infolist, records>>

Next ==
    \/ \E attr \in PlainAttrs, os \in SpawnOs : Allocated < MaxProcs /\ Spawn(attr, os) /\ NoDriver /\ NoAux
    \/ \E p \in Pids, code \in ExitCodes : ChildExit(p, code) /\ NoDriver /\ NoAux
    \/ \E h \in Handles, timeout \in Timeouts : tb_process_wait(h, timeout) /\ NoDriver /\ NoAux
    \/ \E set \in HandleSets, infomaxn \in 0..MaxInfo, timeout \in Timeouts :
         tb_process_waitlist(set, infomaxn, timeout) /\ NoDriver /\ NoAux
    \/ \E h \in Handles : tb_process_kill(h) /\ NoDriver /\ NoAux
    \/ \E h \in Handles : tb_process_suspend(h) /\ NoDriver /\ NoAux
    \/ \E h \in Handles : tb_process_resume(h) /\ NoDriver /\ NoAux

Spec == Init /\ [][Next]_vars

(* ---------------------------- demo driver ----------------------------- *)

\* tb_process_exit(handle): the handle's memory is freed
tb_process_exit(Hs, h) == [Hs EXCEPT ![h].mem = "freed"]

\* demo lines 97-107: release every reported handle
RECURSIVE ExitAll(_, _)
ExitAll(Hs, list) ==
    IF list = <<>> THEN Hs
    ELSE ExitAll(tb_process_exit(Hs, Head(list).process), Tail(list))

\* demo lines 106-116: processes1[index] = tb_null for every record, then the
\* remaining handles are moved to the front and null-terminated
RECURSIVE CompactFrom(_, _, _)
CompactFrom(arr, nulled, i) ==
    IF i > Len(arr) THEN <<>>
    ELSE IF (i - 1) \in nulled THEN CompactFrom(arr, nulled, i + 1)
    ELSE <<arr[i]>> \o CompactFrom(arr, nulled, i + 1)
Compact(arr, list) == CompactFrom(arr, {list[i].index : i \in 1..Len(list)}, 1)

\* attr.priv = tb_u2p(count1), nothing else set
DemoAttr(count1) ==
    [null |-> FALSE, priv |-> count1, suspend |-> FALSE, out |-> NoRedirect, err |-> NoRedirect]

\* demo lines 78-83: one round of the spawn loop
DemoSpawn(os) ==
    /\ dpc = "spawn"
    /\ Len(processes1) < DemoCount
    /\ Spawn(DemoAttr(Len(processes1)), os)
    /\ IF call'.out.ret
       THEN /\ processes1' = Append(processes1, call'.h)
            /\ dpc' = IF Len(processes1) + 1 < DemoCount THEN "spawn" ELSE "wait"
       ELSE /\ processes1' = processes1
            /\ dpc' = "wait"
    /\ UNCHANGED <<infolist, records>>
    /\ NoAux

\* demo lines 86-94: while (count1), wait for the processes of the array
DemoWaitlist ==
    /\ dpc = "wait"
    /\ Len(processes1) > 0
    /\ tb_process_waitlist(processes1, DemoCount, -1)
    /\ infolist' = IF call'.ret > 0 THEN call'.list ELSE <<>>
    /\ dpc' = "consume"
    /\ UNCHANGED <<processes1, records>>
    /\ NoAux

\* demo lines 94-118: release and remove the reported processes
DemoConsume ==
    /\ dpc = "consume"
    /\ caller = "running"
    /\ handles' = ExitAll(handles, infolist)
    /\ processes1' = Compact(processes1, infolist)
    /\ records' = records \o infolist
    /\ infolist' = <<>>
    /\ dpc' = "wait"
    /\ call' = [op |-> "consume"]
    /\ UNCHANGED <<config, caller, fds, procs, lost>>
    /\ NoAux

\* demo line 86: count1 == 0 ends the loop
DemoDone ==
    /\ dpc = "wait"
    /\ caller = "running"
    /\ Len(processes1) = 0
    /\ dpc' = "done"
    /\ call' = [op |-> "done"]
    /\ UNCHANGED <<config, caller, fds, handles, procs, lost, processes1, infolist, records>>
    /\ NoAux

InitDemo ==
    /\ config \in PlainConfigs
    /\ caller = "running"
    /\ fds = StdFds
    /\ handles = [h \in Handles |-> NoHandle]
    /\ procs = [p \in Pids |-> NoChild]
    /\ call = NoCall
    /\ lost = {}
    /\ dpc = "spawn"
    /\ processes1 = <<>>
    /\ infolist = <<>>
    /\ records = <<>>
    /\ AllAtRest

NextDemo ==
    \/ \E os \in SpawnOs : DemoSpawn(os)
    \/ \E p \in Pids, code \in ExitCodes : ChildExit(p, code) /\ NoDriver /\ NoAux
    \/ DemoWaitlist
    \/ DemoConsume
    \/ DemoDone

SpecDemo == InitDemo /\ [][NextDemo]_vars

(* ------------------------- spawn specification ------------------------- *)

\* number of tb_process_init calls examined in a row
MaxSpawnCalls == 1

\* the caller may have closed its standard input before spawning
InitSpawn ==
    /\ config \in Configs
    /\ caller = "running"
    /\ fds \in {StdFds, [StdFds EXCEPT ![STDIN_FILENO] = "closed"]}
    /\ handles = [h \in Handles |-> NoHandle]
    /\ procs = [p \in Pids |-> NoChild]
    /\ call = NoCall
    /\ lost = {}
    /\ dpc = "idle"
    /\ processes1 = <<>>
    /\ infolist = <<>>
    /\ records = <<>>
    /\ AllAtRest

NextSpawn ==
    \E attr \in Attrs, os \in OsAnswers : Allocated < MaxSpawnCalls /\ Spawn(attr, os) /\ NoDriver /\ NoAux

SpecSpawn == InitSpawn /\ [][NextSpawn]_vars

(* ------------------------- tb_process_init_cmd ------------------------- *)

\* a command is a sequence of characters
DQ == "\""
SQ == "'"
BS == "\\"
SP == " "
tb_isspace(ch) == ch = SP

\* tb_char_t const* argv_buffer[256]; tb_size_t argv_maxn = 16; TB_MAXU16
ARGV_BUFFER_MAXN == 256
ARGV_GUESS == 16
TB_MAXU16 == 65535

\* lines 416-437: copy the command, dropping each backslash that stands
\* before a double quote, a single quote or a backslash.  (The buffer grows
\* by TB_PATH_MAXN as needed, which leaves the copy as it is.)
RECURSIVE TranslateFrom(_, _)
TranslateFrom(cmd, i) ==
    IF i > Len(cmd) THEN <<>>
    ELSE LET ch == cmd[i]
             next == IF i < Len(cmd) THEN cmd[i + 1] ELSE ""
         IN  (IF ch = BS /\ next \in {DQ, SQ, BS} THEN <<>> ELSE <<ch>>) \o TranslateFrom(cmd, i + 1)
Translate(cmd) == TranslateFrom(cmd, 1)

\* line 434: the number of whitespace characters of the command
Spaces(cmd) == Cardinality({i \in 1..Len(cmd) : tb_isspace(cmd[i])})

\* lines 440-453: the size m of the argument vector for a guess argv_maxn
ArgvCapacity(argv_maxn) ==
    IF argv_maxn <= ARGV_BUFFER_MAXN THEN ARGV_BUFFER_MAXN
    ELSE IF argv_maxn > TB_MAXU16 THEN TB_MAXU16
    ELSE argv_maxn

\* lines 463-509: the split pass over the translated buffer.  s: the quote
\* state (0, 1 single, 2 double); b: where the current argument starts (0:
\* none); args: the arguments ended so far, each the text from b up to the
\* terminator written at its closing whitespace.
RECURSIVE SplitFrom(_, _, _, _, _)
SplitFrom(buffer, p, s, b, args) ==
    IF p > Len(buffer)
    THEN IF b # 0 THEN Append(args, SubSeq(buffer, b, Len(buffer))) ELSE args
    ELSE LET ch == buffer[p]
             s1 == IF s = 0 /\ ch = DQ THEN 2
                   ELSE IF s = 0 /\ ch = SQ THEN 1
                   ELSE IF (s = 2 /\ ch = DQ) \/ (s = 1 /\ ch = SQ) THEN 0
                   ELSE s
             ends == s = 0 /\ tb_isspace(ch)
             args1 == IF ends /\ b # 0 THEN Append(args, SubSeq(buffer, b, p - 1)) ELSE args
             b1 == IF ends THEN 0 ELSE b
             b2 == IF (s1 # 0 \/ ~tb_isspace(ch)) /\ b1 = 0 THEN p ELSE b1
         IN  SplitFrom(buffer, p + 1, s1, b2, args1)
Split(buffer) == SplitFrom(buffer, 1, 0, 0, <<>>)

\* lines 484, 505: if (i < m - 1) argv[i++] = b, once for each of n
\* arguments: the number of arguments saved
Saved(n, m) == IF n < m - 1 THEN n ELSE m - 1

\* line 512: tb_assertf_and_check_break(i < m - 1, ...)
ArgvCheckNone(i, m) == TRUE
ArgvCheck(i, m) == i < m - 1

\* what tb_process_init_cmd makes of a command with ws whitespace characters
\* and n arguments: capacity m, arguments saved, the vector ends with a null
\* entry, the check passed
ArgvOutcome(ws, n) ==
    LET m == ArgvCapacity(ARGV_GUESS + ws)
        i == Saved(n, m)
    IN  [m |-> m, saved |-> i, terminated |-> i < m, ok |-> ArgvCheck(i, m)]

\* commands given as text
MaxCmdLen == 4
Alphabet == {"a", SP, DQ, SQ, BS}
RECURSIVE Strings(_)
Strings(n) ==
    IF n = 0 THEN {<<>>}
    ELSE LET S == Strings(n - 1)
         IN  S \cup {Append(s, c) : s \in {t \in S : Len(t) = n - 1}, c \in Alphabet}
Example == <<DQ, "a", SP, "b", DQ, SP, "c", BS, SP, "d">>
Cmds == Strings(MaxCmdLen) \cup {Example}

\* long commands, given by their shape only: n one-character arguments
\* separated by single blanks and followed by extra blanks
MaxExtraSpace == 1
LongArgs == {240, 241, 242, 243, 255, 256, 257, 65519, 65520, 65521, 65533, 65534, 65535, 65536}
\* full: the translated command ends exactly where the buffer ends (j = maxn),
\* which a text as short as these never does
LongCmds ==
    {[kind |-> "shape", text |-> <<>>, n |-> n, ws |-> n - 1 + e, full |-> f] :
        n \in LongArgs, e \in 0..MaxExtraSpace, f \in BOOLEAN}
TextCmds == {[kind |-> "text", text |-> t, n |-> 0, ws |-> 0, full |-> FALSE] : t \in Cmds}

\* lines 407-435: the copy loop with its buffer of maxn characters, grown by
\* one block of TB_PATH_MAXN characters when a character arrives at j = maxn.
\* block: the value of TB_PATH_MAXN.  Gives j and maxn at the end of the loop.
RECURSIVE CopyFrom(_, _, _, _, _)
CopyFrom(cmd, i, j, maxn, block) ==
    IF ~(j <= maxn /\ i <= Len(cmd)) THEN [j |-> j, maxn |-> maxn]
    ELSE LET maxn1 == IF j = maxn THEN maxn + block ELSE maxn
             ch == cmd[i]
             next == IF i < Len(cmd) THEN cmd[i + 1] ELSE ""
             j1 == IF ch = BS /\ next \in {DQ, SQ, BS} THEN j ELSE j + 1
         IN  CopyFrom(cmd, i + 1, j1, maxn1, block)
Copy(cmd, block) == CopyFrom(cmd, 1, 0, block, block)

\* commands copied into a buffer of small blocks
MaxBlock == 3
BlockSizes == 2..MaxBlock
BlockAlphabet == {"a", BS}
RECURSIVE BlockStrings(_)
BlockStrings(n) ==
    IF n = 0 THEN {<<>>}
    ELSE LET S == BlockStrings(n - 1)
         IN  S \cup {Append(s, c) : s \in {t \in S : Len(t) = n - 1}, c \in BlockAlphabet}
BlockCmds ==
    {[kind |-> "text", text |-> t, n |-> 0, ws |-> 0, full |-> FALSE, block |-> b] :
        t \in BlockStrings(2 * MaxBlock + 2), b \in BlockSizes}
HasBlock(x) == "block" \in DOMAIN x

\* line 436: tb_assert_and_check_break(j < maxn)
BufferCheck(x) ==
    IF HasBlock(x)
    THEN LET r == Copy(x.text, x.block) IN r.j < r.maxn
    ELSE ~x.full

\* lines 394-529 on input x, a text or a shape
IsText(x) == x.kind = "text"
CmdOutcome(x) ==
    IF IsText(x)
    THEN LET tokens == Split(Translate(x.text))
             o == ArgvOutcome(Spaces(x.text), Len(tokens))
         IN  [tokens |-> tokens, n |-> Len(tokens), ws |-> Spaces(x.text),
              argv |-> SubSeq(tokens, 1, o.saved), o |-> o]
    ELSE [tokens |-> <<>>, n |-> x.n, ws |-> x.ws, argv |-> <<>>, o |-> ArgvOutcome(x.ws, x.n)]

\* tb_process_init_cmd(cmd, attr): tokenization, then tb_process_init(argv[0],
\* argv, attr), which returns tb_null for a null pathname (lines 139, 241)
InitCmd ==
    /\ caller = "running"
    /\ tok.on /\ tok.pc = "start"
    /\ LET r == CmdOutcome(tok.cmd)
           spawns == BufferCheck(tok.cmd) /\ r.o.ok /\ r.o.saved > 0
       IN  /\ IF spawns
              THEN \E attr \in PlainAttrs : Spawn(attr, NominalOs)
              ELSE /\ caller' = IF config.debug THEN "aborted" ELSE "running"
                   /\ call' = [op |-> "init_cmd"]
                   /\ UNCHANGED <<config, fds, handles, procs, lost>>
           /\ tok' = [on |-> TRUE, pc |-> "done", cmd |-> tok.cmd, text |-> IsText(tok.cmd),
                      tokens |-> r.tokens, n |-> r.n, ws |-> r.ws, argv |-> r.argv,
                      m |-> r.o.m, saved |-> r.o.saved, terminated |-> r.o.terminated,
                      spawned |-> spawns,
                      ret |-> spawns /\ call'.out.ret]
    /\ NoDriver
    /\ UNCHANGED <<wloop, sched, pipe>>

InitCmdSpec ==
    /\ config \in {c \in Configs : ~c.start_suspended}
    /\ caller = "running"
    /\ fds = StdFds
    /\ handles = [h \in Handles |-> NoHandle]
    /\ procs = [p \in Pids |-> NoChild]
    /\ call = NoCall
    /\ lost = {}
    /\ dpc = "idle"
    /\ processes1 = <<>>
    /\ infolist = <<>>
    /\ records = <<>>
    /\ wloop = AtRest /\ sched = AtRest /\ pipe = AtRest
    /\ tok \in [on : {TRUE}, pc : {"start"}, cmd : TextCmds \cup LongCmds]

NextCmd == InitCmd

SpecCmd == InitCmdSpec /\ [][NextCmd]_vars

InitCmdBlock ==
    /\ config \in {c \in Configs : ~c.start_suspended}
    /\ caller = "running"
    /\ fds = StdFds
    /\ handles = [h \in Handles |-> NoHandle]
    /\ procs = [p \in Pids |-> NoChild]
    /\ call = NoCall
    /\ lost = {}
    /\ dpc = "idle"
    /\ processes1 = <<>>
    /\ infolist = <<>>
    /\ records = <<>>
    /\ wloop = AtRest /\ sched = AtRest /\ pipe = AtRest
    /\ tok \in [on : {TRUE}, pc : {"start"}, cmd : BlockCmds]

SpecBlock == InitCmdBlock /\ [][NextCmd]_vars

(* ------------------- tb_process_wait with timeout > 0 ------------------ *)

\* tb_msleep(tb_min(timeout, 60))
SLICE == 60
TimedTimeouts == {30, 60, 100}
tb_min(a, b) == IF a < b THEN a ELSE b

IdleLoop == [on |-> TRUE, pc |-> "idle"]

\* lines 645-647: the call enters the loop and reads the clock
WaitStart(h, timeout) ==
    /\ caller = "running"
    /\ wloop.on /\ wloop.pc # "loop"
    /\ handles[h].mem = "live"
    /\ wloop' = [on |-> TRUE, pc |-> "loop", h |-> h, timeout |-> timeout,
                 elapsed |-> 0, sleeps |-> <<>>, result |-> 0, ret |-> 0]
    /\ call' = [op |-> "enter", h |-> h, timeout |-> timeout]
    /\ UNCHANGED <<config, caller, fds, handles, procs, lost>>

\* lines 648-683: one turn of the loop: waitpid with WNOHANG | WUNTRACED,
\* then return, or sleep and test the clock (a sleep lasts as long as asked)
WaitSlice ==
    /\ caller = "running"
    /\ wloop.on /\ wloop.pc = "loop"
    /\ LET h == wloop.h
           timeout == wloop.timeout
       IN  \E w \in waitpid(procs, handles[h].pid, WaitOptions(timeout)) :
             LET r == WaitReturn(w)
                 ms == tb_min(timeout, SLICE)
                 now == wloop.elapsed + ms
                 again == timeout > 0 /\ now < timeout
             IN  /\ procs' = w.procs
                 /\ handles' = IF r.clear THEN [handles EXCEPT ![h].pid = 0] ELSE handles
                 /\ IF w.result # 0
                    THEN /\ wloop' = [wloop EXCEPT !.pc = "done", !.result = w.result, !.ret = r.ret]
                         /\ call' = [op |-> "wait", h |-> h, timeout |-> timeout, pid |-> handles[h].pid,
                                     own |-> IF handles[h].child \in Pids THEN procs[handles[h].child].st ELSE "none",
                                     result |-> w.result, rst |-> w.rst, how |-> w.how, arg |-> w.arg,
                                     ret |-> r.ret, wrote |-> r.wrote, status |-> r.status]
                    ELSE /\ wloop' = [wloop EXCEPT !.pc = IF again THEN "loop" ELSE "done",
                                                   !.elapsed = now,
                                                   !.sleeps = Append(@, ms),
                                                   !.ret = 0]
                         /\ call' = IF again THEN [op |-> "sleep", h |-> h, ms |-> ms]
                                    ELSE [op |-> "wait", h |-> h, timeout |-> timeout, pid |-> handles[h].pid,
                                          own |-> IF handles[h].child \in Pids THEN procs[handles[h].child].st ELSE "none",
                                          result |-> 0, rst |-> w.rst, how |-> w.how, arg |-> w.arg,
                                          ret |-> 0, wrote |-> FALSE, status |-> 0]
    /\ UNCHANGED <<config, caller, fds, lost>>

InitTimed ==
    /\ config \in PlainConfigs
    /\ caller = "running"
    /\ fds = StdFds
    /\ handles = [h \in Handles |-> NoHandle]
    /\ procs = [p \in Pids |-> NoChild]
    /\ call = NoCall
    /\ lost = {}
    /\ dpc = "idle"
    /\ processes1 = <<>>
    /\ infolist = <<>>
    /\ records = <<>>
    /\ wloop = IdleLoop
    /\ sched = AtRest /\ tok = AtRest /\ pipe = AtRest

NoTimedAux == UNCHANGED <<sched, tok, pipe>>

NextTimed ==
    \/ \E attr \in PlainAttrs :
         /\ Allocated < MaxProcs /\ wloop.pc # "loop"
         /\ Spawn(attr, NominalOs) /\ NoDriver /\ NoAux
    \/ \E p \in Pids, code \in ExitCodes : ChildExit(p, code) /\ NoDriver /\ NoAux
    \/ \E h \in Handles, timeout \in TimedTimeouts : WaitStart(h, timeout) /\ NoDriver /\ NoTimedAux
    \/ WaitSlice /\ NoDriver /\ NoTimedAux

SpecTimed == InitTimed /\ [][NextTimed]_vars

(* --------------------- coroutines and tb_process_exit ------------------ *)

\* tasks of the scheduler running on the calling thread
MaxTasks == 2
Tasks == 1..MaxTasks
\* handles created in a row in the task specification
MaxTaskProcs == 2

\* TB_CONFIG_MODULE_HAVE_COROUTINE and TB_CONFIG_MICRO_ENABLE: "none" has no
\* coroutine module, "micro" only the stackless (lo) scheduler, "full" both.
\* flavor: what runs on the calling thread: plain code ("thread"), a
\* stackful ("co") or a stackless ("lo") scheduler with its tasks.
Flavors(module) ==
    CASE module = "none" -> {"thread"}
      [] module = "micro" -> {"thread", "lo"}
      [] OTHER -> {"thread", "co", "lo"}

\* the scheduler state: cur is the running task (0: plain thread code, or a
\* scheduler whose tasks are all suspended); reg the wait registrations of
\* its io poller; susp the suspended tasks; alias[g] the released handle
\* whose memory block handle g was given, 0 for a fresh block; at the
\* context of the last tb_process_wait
NoAt == [timeout |-> 0, self |-> FALSE, intask |-> FALSE]
Scheds ==
    {[on |-> TRUE, module |-> m, flavor |-> f, cur |-> c, reg |-> {}, susp |-> {},
      alias |-> [h \in Handles |-> 0], at |-> NoAt] :
        m \in {"none", "micro", "full"}, f \in {"thread", "co", "lo"}, c \in 0..MaxTasks}
InitScheds == {s \in Scheds : s.flavor \in Flavors(s.module) /\ (s.cur = 0 <=> s.flavor = "thread")}

\* code runs: on the plain thread, or in the running task
CanCall == caller = "running" /\ sched.on /\ (sched.flavor = "thread" \/ sched.cur # 0)

\* tb_coroutine_self(), tb_co_scheduler_io_self(), tb_lo_scheduler_io_self()
tb_coroutine_self(s) == s.flavor = "co" /\ s.cur # 0
tb_co_scheduler_io_self(s) == s.flavor = "co" /\ s.cur # 0
tb_lo_scheduler_io_self(s) == s.flavor = "lo" /\ s.cur # 0

\* the scheduler suspends the running task and runs another one, if any
Runnable(s) == Tasks \ s.susp
Suspend(s) ==
    LET susp == s.susp \cup {s.cur}
    IN  {[s EXCEPT !.susp = susp, !.cur = c] :
            c \in IF Tasks \ susp = {} THEN {0} ELSE Tasks \ susp}

\* register-for-process-exit: the poller object of handle h is registered
\* for the running task, which is suspended
WaitProc(s, h) == {[n EXCEPT !.reg = @ \cup {[h |-> h, task |-> s.cur]}] : n \in Suspend(s)}

\* cancel-registration: the registrations of the object are removed; TRUE
\* if there was one
io_cancel(s, h) ==
    [found |-> \E r \in s.reg : r.h = h, sched |-> [s EXCEPT !.reg = {r \in @ : r.h # h}]]

\* lines 633-643: the wait is handed to the coroutine scheduler
WaitDispatchAlways(module, timeout, self) == module = "full" /\ self
WaitDispatch(module, timeout, self) == module = "full" /\ timeout # 0 /\ self

\* lines 536-547: tb_process_exit cancels the waiting from a coroutine
ExitNoCancel(s, h) == s
ExitCancel(s, h) ==
    IF s.module = "none" THEN s
    ELSE IF s.module = "full" /\ tb_co_scheduler_io_self(s) /\ io_cancel(s, h).found
    THEN io_cancel(s, h).sched
    ELSE IF tb_lo_scheduler_io_self(s) THEN io_cancel(s, h).sched
    ELSE s

\* tb_process_init in a task or on the thread; the allocator hands out a
\* fresh block or the block of a released handle
TaskSpawn(attr) ==
    /\ CanCall
    /\ Allocated < MaxTaskProcs
    /\ Spawn(attr, NominalOs)
    /\ \E a \in {0} \cup {f \in Handles : /\ handles[f].mem = "freed"
                                          /\ \A g \in LiveHandles : sched.alias[g] # f} :
         sched' = [sched EXCEPT !.alias[NewHandle] = a]

\* tb_process_wait(h, &status, timeout), lines 627-684, timeout <= 0
TaskWait(h, timeout) ==
    /\ CanCall
    /\ handles[h].mem = "live"
    /\ LET self == tb_coroutine_self(sched)
           at == [timeout |-> timeout, self |-> self, intask |-> sched.cur # 0]
       IN  IF WaitDispatch(sched.module, timeout, self)
           THEN /\ \E n \in WaitProc(sched, h) : sched' = [n EXCEPT !.at = at]
                /\ call' = [op |-> "waitproc", h |-> h, timeout |-> timeout, task |-> sched.cur]
                /\ UNCHANGED <<config, caller, fds, handles, procs, lost>>
           ELSE /\ tb_process_wait(h, timeout)
                /\ sched' = [sched EXCEPT !.at = at]

\* the stackless flavor's own wait: the running lo task registers handle h
LoWaitProc(h) ==
    /\ CanCall
    /\ sched.flavor = "lo"
    /\ handles[h].mem = "live"
    /\ sched' \in WaitProc(sched, h)
    /\ call' = [op |-> "lo_waitproc", h |-> h, task |-> sched.cur]
    /\ UNCHANGED <<config, caller, fds, handles, procs, lost>>

\* the poller reports the exit of a registered handle's child: the child is
\* reaped and the waiting task resumes
Resume ==
    /\ caller = "running" /\ sched.on
    /\ \E r \in sched.reg :
         /\ handles[r.h].pid \in Pids
         /\ \E w \in waitpid(procs, handles[r.h].pid, {"WNOHANG"}) :
              /\ w.result > 0
              /\ procs' = w.procs
              /\ handles' = [handles EXCEPT ![r.h].pid = 0]
              /\ sched' = [sched EXCEPT !.reg = @ \ {r}, !.susp = @ \ {r.task},
                                        !.cur = IF @ = 0 THEN r.task ELSE @]
              /\ call' = [op |-> "resume", h |-> r.h, task |-> r.task,
                          mem |-> handles[r.h].mem, status |-> SaveStatus(w.status)]
    /\ UNCHANGED <<config, caller, fds, lost>>

\* the running task yields to another runnable task
Switch(t) ==
    /\ caller = "running" /\ sched.on
    /\ sched.cur # 0 /\ t # sched.cur /\ t \in Runnable(sched)
    /\ sched' = [sched EXCEPT !.cur = t]
    /\ call' = [op |-> "switch", task |-> t]
    /\ UNCHANGED <<config, caller, fds, handles, procs, lost>>

\* tb_process_exit(self), lines 530-559.  The pointer of a released handle
\* refers to freed memory: if the block was handed out again, the call acts
\* on the handle that owns it now; otherwise it frees a free block, which
\* the allocator may survive or not.
Release(h) ==
    /\ CanCall
    /\ handles[h].mem \in {"live", "freed"}
    /\ LET was == handles[h].mem
           owners == {g \in LiveHandles : sched.alias[g] = h}
           victim == IF was = "live" THEN h
                     ELSE IF owners # {} THEN CHOOSE g \in owners : TRUE
                     ELSE 0
           steps == (IF sched.module # "none" THEN <<"cancel">> ELSE <<>>)
                    \o (IF config.strategy = "posix_spawnp" THEN <<"destroy">> ELSE <<>>)
                    \o <<"free">>
       IN  /\ call' = [op |-> "release", h |-> h, was |-> was, victim |-> victim, steps |-> steps]
           /\ IF victim # 0
              THEN /\ sched' = ExitCancel(sched, victim)
                   /\ handles' = tb_process_exit(handles, victim)
                   /\ caller' = caller
              ELSE /\ sched' = sched
                   /\ handles' = handles
                   /\ caller' \in {"running", "aborted"}
    /\ UNCHANGED <<config, fds, procs, lost>>

InitTask ==
    /\ config \in PlainConfigs
    /\ caller = "running"
    /\ fds = StdFds
    /\ handles = [h \in Handles |-> NoHandle]
    /\ procs = [p \in Pids |-> NoChild]
    /\ call = NoCall
    /\ lost = {}
    /\ dpc = "idle"
    /\ processes1 = <<>>
    /\ infolist = <<>>
    /\ records = <<>>
    /\ sched \in InitScheds
    /\ wloop = AtRest /\ tok = AtRest /\ pipe = AtRest

NoTaskAux == UNCHANGED <<wloop, tok, pipe>>

NextTask ==
    \/ \E attr \in PlainAttrs : TaskSpawn(attr) /\ NoDriver /\ NoTaskAux
    \/ \E p \in Pids, code \in ExitCodes : ChildExit(p, code) /\ NoDriver /\ NoAux
    \/ \E h \in Handles, timeout \in Timeouts : TaskWait(h, timeout) /\ NoDriver /\ NoTaskAux
    \/ \E h \in Handles : LoWaitProc(h) /\ NoDriver /\ NoTaskAux
    \/ Resume /\ NoDriver /\ NoTaskAux
    \/ \E t \in Tasks : Switch(t) /\ NoDriver /\ NoTaskAux
    \/ \E h \in Handles : Release(h) /\ NoDriver /\ NoTaskAux

SpecTask == InitTask /\ [][NextTask]_vars

(* ------------------------------ pipe demo ------------------------------ *)

\* tb_byte_t data[8192]
DATA_SIZE == 8192
\* what the spawned program writes to its standard output before it exits
Hello == <<"h", "e", "l", "l", "o", "\n">>
Msgs == {<<>>, <<"a">>, <<"a", "b">>, Hello}

\* demo lines 24-26: attr.outpipe = file[1]; attr.outtype = PIPE.  The pair's
\* write end file[1] is descriptor 5 of the caller.
PipeAttr ==
    [null |-> FALSE, priv |-> 0, suspend |-> FALSE,
     out |-> [type |-> "PIPE", path |-> "", obj |-> 6], err |-> NoRedirect]

\* demo lines 19-27: the pipe pair is made and the program spawned
PipeSpawn ==
    /\ pipe.on /\ pipe.pc = "start"
    /\ Spawn(PipeAttr, NominalOs)
    /\ pipe' = [pipe EXCEPT !.pc = IF call'.out.ret THEN "read" ELSE "done",
                            !.h = call'.h,
                            !.child = handles'[call'.h].child,
                            !.childout = call'.out.cfds[STDOUT_FILENO]]

\* the program writes the next byte to its standard output
ChildWrite ==
    /\ pipe.on /\ pipe.child \in Pids
    /\ procs[pipe.child].st = "running"
    /\ pipe.written < Len(pipe.msg)
    /\ pipe' = [pipe EXCEPT !.written = @ + 1,
                            !.buf = IF pipe.childout = "pipe"
                                    THEN Append(@, pipe.msg[pipe.written + 1]) ELSE @]
    /\ call' = [op |-> "write"]
    /\ UNCHANGED <<config, caller, fds, handles, procs, lost>>

\* the program exits once it has written everything
PipeChildExit(code) ==
    /\ pipe.on /\ pipe.child \in Pids
    /\ pipe.written = Len(pipe.msg)
    /\ ChildExit(pipe.child, code)
    /\ pipe' = [pipe EXCEPT !.code = code]

\* demo lines 35-44, 50: tb_pipe_file_read returns what the pipe holds and
\* does not block
DemoRead ==
    /\ caller = "running"
    /\ pipe.on /\ pipe.pc = "read"
    /\ LET room == DATA_SIZE - Len(pipe.data)
           real == tb_min(Len(pipe.buf), room)
       IN  pipe' = IF room <= 0 THEN [pipe EXCEPT !.pc = "wait"]
                   ELSE IF real > 0
                   THEN [pipe EXCEPT !.data = @ \o SubSeq(pipe.buf, 1, real),
                                     !.buf = SubSeq(@, real + 1, Len(@)),
                                     !.waited = FALSE]
                   ELSE IF ~pipe.waited THEN [pipe EXCEPT !.pc = "pipewait"]
                   ELSE [pipe EXCEPT !.pc = "wait"]
    /\ call' = [op |-> "read"]
    /\ UNCHANGED <<config, caller, fds, handles, procs, lost>>

\* demo lines 45-48: tb_pipe_file_wait(file[0], TB_PIPE_EVENT_READ, 1000)
\* answers that there is data, or that the time has passed without any
DemoPipeWait ==
    /\ caller = "running"
    /\ pipe.on /\ pipe.pc = "pipewait"
    /\ pipe' = IF pipe.buf # <<>> THEN [pipe EXCEPT !.pc = "read", !.waited = TRUE]
               ELSE [pipe EXCEPT !.pc = "wait"]
    /\ call' = [op |-> "pipewait"]
    /\ UNCHANGED <<config, caller, fds, handles, procs, lost>>

\* demo lines 56-58: tb_process_wait(process, &status, -1)
DemoProcessWait ==
    /\ pipe.on /\ pipe.pc = "wait"
    /\ tb_process_wait(pipe.h, -1)
    /\ pipe' = [pipe EXCEPT !.pc = "exit", !.ret = call'.ret,
                            !.status = IF call'.wrote THEN call'.status ELSE 0]

\* demo lines 63-69: tb_process_exit(process), then the pipe files
DemoProcessExit ==
    /\ caller = "running"
    /\ pipe.on /\ pipe.pc = "exit"
    /\ handles' = tb_process_exit(handles, pipe.h)
    /\ pipe' = [pipe EXCEPT !.pc = "done"]
    /\ call' = [op |-> "release", h |-> pipe.h, was |-> handles[pipe.h].mem,
                victim |-> pipe.h, steps |-> <<"free">>]
    /\ UNCHANGED <<config, caller, fds, procs, lost>>

InitPipe ==
    /\ config \in PlainConfigs
    /\ caller = "running"
    /\ fds = StdFds
    /\ handles = [h \in Handles |-> NoHandle]
    /\ procs = [p \in Pids |-> NoChild]
    /\ call = NoCall
    /\ lost = {}
    /\ dpc = "idle"
    /\ processes1 = <<>>
    /\ infolist = <<>>
    /\ records = <<>>
    /\ wloop = AtRest /\ sched = AtRest /\ tok = AtRest
    /\ pipe \in [on : {TRUE}, pc : {"start"}, msg : Msgs, written : {0}, buf : {<<>>},
                 data : {<<>>}, waited : {FALSE}, h : {0}, child : {0}, childout : {"none"},
                 code : {-1}, ret : {0}, status : {0}]

NoPipeAux == UNCHANGED <<wloop, sched, tok>>

ChildSteps ==
    \/ ChildWrite /\ NoDriver /\ NoPipeAux
    \/ \E code \in ExitCodes : PipeChildExit(code) /\ NoDriver /\ NoPipeAux

DemoSteps ==
    \/ PipeSpawn /\ NoDriver /\ NoPipeAux
    \/ DemoRead /\ NoDriver /\ NoPipeAux
    \/ DemoPipeWait /\ NoDriver /\ NoPipeAux
    \/ DemoProcessWait /\ NoDriver /\ NoPipeAux
    \/ DemoProcessExit /\ NoDriver /\ NoPipeAux

NextPipe == ChildSteps \/ DemoSteps

\* the kernel runs the program and the driver
SpecPipe == InitPipe /\ [][NextPipe]_vars /\ WF_vars(ChildSteps) /\ WF_vars(DemoSteps)

(* -------------------- termination of the polling loops ----------------- *)

\* handles created in the loop specification, and the timeouts given
MaxLoopProcs == 2
LoopTimeouts == {-1, 0, 30, 100}

\* a call in progress is a tb_process_waitlist call
IsListLoop == "set" \in DOMAIN wloop

\* lines 688-693: the argument check, then the call enters the loop and
\* reads the clock
WaitlistStart(set, infomaxn, timeout) ==
    /\ caller = "running"
    /\ wloop.on /\ wloop.pc # "loop"
    /\ wloop' = [on |-> TRUE, pc |-> IF infomaxn = 0 THEN "done" ELSE "loop",
                 set |-> set, infomaxn |-> infomaxn, timeout |-> timeout,
                 elapsed |-> 0, result |-> 0, ret |-> IF infomaxn = 0 THEN -1 ELSE 0]
    /\ call' = [op |-> "enterlist", set |-> set, infomaxn |-> infomaxn, timeout |-> timeout]
    /\ UNCHANGED <<config, caller, fds, handles, procs, lost>>

\* lines 694-755: one turn of the loop: waitpid(-1, ...), then the drain and
\* the return for a match, the return for an error, or sleep and the test
\* of the clock
WaitlistSlice ==
    /\ caller = "running"
    /\ wloop.on /\ wloop.pc = "loop" /\ IsListLoop
    /\ LET set == wloop.set
           infomaxn == wloop.infomaxn
           timeout == wloop.timeout
           zombies == {p \in Pids : procs[p].st = "zombie"}
       IN  \E w \in waitpid(procs, -1, WaitOptions(timeout)) :
             IF w.result = -1
             THEN /\ wloop' = [wloop EXCEPT !.pc = "done", !.result = -1, !.ret = -1]
                  /\ procs' = procs /\ lost' = lost
                  /\ call' = [op |-> "waitlist", set |-> set, infomaxn |-> infomaxn, timeout |-> timeout,
                              ret |-> -1, list |-> <<>>, reaps |-> <<>>,
                              unmatched |-> {}, disc |-> {}, zombies |-> zombies]
             ELSE IF w.result # 0 /\ FindProcess(handles, set, w.result) < Len(set)
             THEN \E d \in Drain(handles, w.procs, <<WaitInfo(handles, set, w)>>, <<w.result>>, set, infomaxn) :
                    /\ wloop' = [wloop EXCEPT !.pc = "done", !.result = w.result, !.ret = Len(d.list)]
                    /\ procs' = d.procs /\ lost' = lost \cup d.disc
                    /\ call' = [op |-> "waitlist", set |-> set, infomaxn |-> infomaxn, timeout |-> timeout,
                                ret |-> Len(d.list), list |-> d.list, reaps |-> d.reaps,
                                unmatched |-> d.unmatched, disc |-> d.disc, zombies |-> zombies]
             ELSE LET ms == IF timeout > 0 THEN tb_min(timeout, SLICE) ELSE 0
                      now == wloop.elapsed + ms
                      again == timeout > 0 /\ now < timeout
                  IN  /\ wloop' = [wloop EXCEPT !.pc = IF again THEN "loop" ELSE "done",
                                                !.elapsed = now, !.result = w.result, !.ret = 0]
                      /\ procs' = w.procs /\ lost' = lost \cup Discarded(w)
                      /\ call' = IF again THEN [op |-> "sleeplist", ms |-> ms]
                                 ELSE [op |-> "waitlist", set |-> set, infomaxn |-> infomaxn,
                                       timeout |-> timeout, ret |-> 0, list |-> <<>>, reaps |-> <<>>,
                                       unmatched |-> Unmatched(w), disc |-> Discarded(w),
                                       zombies |-> zombies]
    /\ UNCHANGED <<config, caller, fds, handles>>

\* a turn of the tb_process_wait loop, for any timeout; with timeout < 0 the
\* waitpid blocks, and the turn happens when it returns
WaitLoopSlice == ~IsListLoop /\ WaitSlice

\* between two calls the caller spawns and suspends; during a call it does
\* nothing else
Between == wloop.on /\ wloop.pc # "loop"

LoopCalls ==
    \/ \E attr \in PlainAttrs :
         /\ Allocated < MaxLoopProcs /\ Between
         /\ Spawn(attr, NominalOs) /\ NoDriver /\ NoAux
    \/ \E h \in Handles : Between /\ tb_process_suspend(h) /\ NoDriver /\ NoAux
    \/ \E h \in Handles, timeout \in LoopTimeouts : WaitStart(h, timeout) /\ NoDriver /\ NoTimedAux
    \/ \E set \in HandleSets, infomaxn \in 0..MaxInfo, timeout \in LoopTimeouts :
         WaitlistStart(set, infomaxn, timeout) /\ NoDriver /\ NoTimedAux

LoopChildren == \E p \in Pids, code \in ExitCodes : ChildExit(p, code) /\ NoDriver /\ NoAux

WaitTurn == WaitLoopSlice /\ NoDriver /\ NoTimedAux
WaitlistTurn == WaitlistSlice /\ NoDriver /\ NoTimedAux

NextLoop == LoopCalls \/ LoopChildren \/ WaitTurn \/ WaitlistTurn

\* the calling thread runs: a call in progress takes its next turn unless
\* its waitpid blocks.  Nothing obliges a child to exit.
SpecLoop == InitTimed /\ [][NextLoop]_vars /\ WF_vars(WaitTurn) /\ WF_vars(WaitlistTurn)

(* ------------------------------ claims --------------------------------- *)

IsWait == call.op = "wait"
IsWaitlist == call.op = "waitlist"
IsSignal == call.op \in {"kill", "suspend", "resume"}

\* the pid of the child spawned for handle h (0: none)
ChildOf(h) == handles[h].child

\* C1: tb_process_wait(handle, 0) returns 0 while the child runs, the first
\* wait after the child's exit returns 1 with that child's status, and every
\* wait on the handle after that returns -1, stores no status and reaps no
\* child.
C1_WaitOnceThenError ==
    IsWait /\ call.timeout = 0 =>
        /\ (call.pid > 0 /\ call.own = "running" => call.ret = 0)
        /\ (call.pid > 0 /\ call.own = "zombie" => call.ret = 1 /\ call.result = ChildOf(call.h))
        /\ (call.pid = 0 /\ call.own = "reaped" =>
                call.ret = -1 /\ ~call.wrote /\ call.result <= 0)

\* C2: a handle's pid is > 0 exactly while its child is spawned and not yet
\* reaped, and 0 once the child has been reaped (by tb_process_wait or by
\* tb_process_waitlist).  Stated for children that run or have terminated
\* and whose exit was reported to the caller.
C2_NativeIdTracksChild ==
    \A h \in Handles :
        handles[h].mem = "live" =>
            IF ChildOf(h) = 0 THEN handles[h].pid <= 0
            ELSE procs[ChildOf(h)].st \in {"running", "zombie", "reaped"} /\ ChildOf(h) \notin lost =>
                    /\ handles[h].pid > 0 <=> procs[ChildOf(h)].st # "reaped"
                    /\ procs[ChildOf(h)].st = "reaped" => handles[h].pid = 0

\* the pids the records of infolist were written for
RecordPids(list) == {list[i].pid : i \in 1..Len(list)}
\* the children the handles of a submitted array name by their pid field
SetPids(set) == {handles[set[i]].pid : i \in 1..Len(set)} \cap Pids
\* a further non-blocking reap attempt would return a child
Reapable == \E p \in Pids : procs[p].st \in {"zombie", "stopped"}

\* C4 (as claimed): after the first match the drain stops only at capacity or
\* when no child is immediately reapable, so every child of the set that had
\* already exited is in the batch, up to capacity; never more than capacity.
C4_DrainsEveryExitedChild ==
    IsWaitlist /\ call.ret > 0 =>
        /\ Len(call.list) <= call.infomaxn
        /\ Len(call.list) = call.infomaxn \/ ~Reapable
        /\ \A p \in call.zombies \cap SetPids(call.set) :
              p \in RecordPids(call.list) \/ Len(call.list) = call.infomaxn

\* C4 (amended): the drain also stops when a reap returns a child that is not
\* in the set; unless it stopped for that reason, every child of the set that
\* had already exited is in the batch, up to capacity.  The records are those
\* of the matched reaps, in reap order, and never more than capacity.
C4_DrainsUntilUnmatched ==
    IsWaitlist /\ call.ret > 0 =>
        /\ call.ret = Len(call.list)
        /\ Len(call.list) <= call.infomaxn
        /\ Len(call.list) = call.infomaxn \/ ~Reapable \/ call.unmatched # {}
        /\ \A p \in call.zombies \cap SetPids(call.set) :
              p \in RecordPids(call.list) \/ Len(call.list) = call.infomaxn \/ call.unmatched # {}
        /\ Len(call.reaps) = Len(call.list)
        /\ \A i \in 1..Len(call.list) : call.list[i].pid = call.reaps[i]

\* C4 witness: a drain that matched one child, then reaped a child outside
\* the set and returned, below capacity, with an exited child of the set
\* left unreaped
C4_Witness ==
    /\ IsWaitlist /\ call.ret = 1 /\ call.infomaxn = 2
    /\ call.unmatched # {}
    /\ \E p \in SetPids(call.set) : procs[p].st = "zombie"

\* C5: the exit status of a child that tb_process_waitlist reaped without a
\* match is gone: that call writes no record for it, no later wait or
\* waitlist reports it, and a wait on its handle fails.
C5_DiscardedStatusIsLost ==
    /\ IsWait /\ call.ret = 1 => call.result \in Pids \ lost
    /\ IsWaitlist => RecordPids(call.list) \cap (lost \cup call.unmatched) = {}
    /\ IsWait /\ call.pid > 0 /\ ChildOf(call.h) \in lost => call.ret = -1 /\ ~call.wrote

\* C5 witness: a wait on the handle of a child whose status was discarded
C5_Witness ==
    IsWait /\ call.pid > 0 /\ ChildOf(call.h) \in lost /\ call.ret = -1

\* C6 (as claimed): the signal calls send nothing when pid <= 0, signal
\* exactly the handle's pid otherwise, change neither pid nor priv, and so
\* never signal a pid whose child was already reaped.  Stated for children
\* whose exit was reported to the caller.
C6_NoSignalToReapedPid ==
    IsSignal =>
        /\ call.sent <=> handles[call.h].pid > 0
        /\ call.sent => call.to = handles[call.h].pid
        /\ call.sent /\ call.to \notin lost => call.tst # "reaped"

\* C7: tb_process_wait(handle, -1) on a handle that holds its child's pid
\* returns only once that child has terminated, never 0, and reports the
\* exit code truncated to 0..255 after exit() and -1 after a fatal signal.
C7_BlockingWaitStatus ==
    IsWait /\ call.timeout < 0 /\ call.pid > 0 =>
        /\ call.ret # 0
        /\ call.ret = 1 =>
              /\ call.result = call.pid /\ call.rst = "zombie" /\ call.wrote
              /\ call.status \in (0..255) \cup {-1}
              /\ call.how = "exit" => call.status = call.arg % 256
              /\ call.how = "signal" => call.status = -1
        /\ call.ret = -1 => call.own = "reaped" /\ ~call.wrote

\* C7 witness: a blocking wait reported Exited(3) for a child that called
\* exit(259)
C7_Witness ==
    IsWait /\ call.timeout < 0 /\ call.ret = 1 /\ call.how = "exit" /\ call.arg = 259 /\ call.status = 3

\* C7 witness for the other case: Exited(-1) for a child that was killed
C7_WitnessKilled ==
    IsWait /\ call.timeout < 0 /\ call.ret = 1 /\ call.how = "signal" /\ call.status = -1

\* the handles whose spawn created a child
Spawned == {h \in Handles : ChildOf(h) # 0}

\* C3: tb_process_waitlist called repeatedly over the spawned processes, as
\* the demo driver does, reports every handle exactly once: each record names
\* the position of its handle in the submitted array and that handle, no
\* handle is reported twice, and when the driver is done there are as many
\* records as spawned processes.
C3_EachHandleReportedOnce ==
    /\ IsWaitlist =>
          \A i \in 1..Len(call.list) :
             /\ call.list[i].index < Len(call.set)
             /\ call.set[call.list[i].index + 1] = call.list[i].process
             /\ ChildOf(call.list[i].process) = call.list[i].pid
    /\ \A i, j \in 1..Len(records) : i # j => records[i].process # records[j].process
    /\ dpc = "done" =>
          /\ Len(records) = Cardinality(Spawned)
          /\ {records[i].process : i \in 1..Len(records)} = Spawned

\* C3 witness: the driver is done with all DemoCount processes reported, one
\* of them at a position that differs from its place in the first array
C3_Witness ==
    /\ dpc = "done" /\ Len(records) = DemoCount
    /\ \E i \in 1..Len(records) : records[i].index + 1 # records[i].process

IsInit == call.op = "init"

\* C8: every tb_process_init returns to its caller, with a handle whose pid
\* is > 0 or with tb_null after the handle was released and with no live
\* child left by the call; in both strategies, also when fork fails.
\* (Stated for spawns that do not ask for suspension.)
C8_SpawnReturnsOrCleansUp ==
    IsInit /\ ~call.attr.suspend =>
        /\ caller = "running"
        /\ call.out.ret => handles[call.h].mem = "live" /\ handles[call.h].pid > 0
        /\ ~call.out.ret =>
              /\ call.out.released /\ handles[call.h].mem = "freed"
              /\ call.out.child.st \notin {"running", "stopped", "stopseen"}

\* what the child's standard stream must refer to once redirect r applied
Target(r, F) == IF IsPath(r) THEN r.path ELSE F[tb_pipefile2fd(r.obj)]

\* C9: in the fork strategy the duplicate either replaces its image with
\* every requested redirection applied, or terminates at once with
\* _exit(-1); it never goes on running the caller's code.
\* (Stated for spawns that do not ask for suspension.)
C9_DuplicateExecsOrExits ==
    IsInit /\ config.strategy = "fork" /\ ~call.attr.suspend /\ call.out.child.st # "none" =>
        /\ call.out.child.image # "caller"
        /\ call.out.child.image = "program" =>
              /\ IsPath(call.attr.out) \/ IsDesc(call.attr.out) =>
                    call.out.cfds[STDOUT_FILENO] = Target(call.attr.out, fds)
              /\ IsPath(call.attr.err) \/ IsDesc(call.attr.err) =>
                    call.out.cfds[STDERR_FILENO] = Target(call.attr.err, fds)
        /\ call.out.child.image = "none" => call.out.child = Exited(-1)

\* C10: asking for a suspended start where the build cannot provide it makes
\* tb_process_init fail: no handle is returned, the fork strategy creates no
\* child, and no child is left running un-suspended.
C10_SuspendUnsupportedFails ==
    IsInit /\ call.attr.suspend /\ ~(config.strategy = "posix_spawnp" /\ config.start_suspended) =>
        /\ caller = "running"
        /\ ~call.out.ret
        /\ config.strategy = "fork" => call.out.child.st = "none"
        /\ call.out.child.st # "running"

\* C20: tb_process_waitlist with timeout < 0 does not return 0 records
\* while a child of the supplied set is still running, whichever other
\* children exited first.
C20_BlockingWaitlistWaitsForSet ==
    IsWaitlist /\ call.timeout < 0
               /\ (\E i \in 1..Len(call.set) :
                      /\ ChildOf(call.set[i]) \in Pids
                      /\ procs[ChildOf(call.set[i])].st = "running")
        => call.ret # 0

\* C19: a PIPE or FILE redirect is applied in the new process as dup2 onto
\* the standard stream followed by close of the original descriptor; the
\* caller's descriptor stays open and its standard streams are untouched; a
\* stream without redirect is inherited as it is.
C19_DescriptorRedirect ==
    IsInit /\ call.out.child.image = "program" =>
        LET o == call.attr.out
            e == call.attr.err
            fo == tb_pipefile2fd(o.obj)
            fe == tb_pipefile2fd(e.obj)
            c == call.out.cfds
        IN  /\ IsDesc(o) => /\ c[STDOUT_FILENO] = fds[fo]
                            /\ c[fo] = "closed"
                            /\ fds[fo] # "closed"
            /\ IsDesc(e) => /\ c[fe] = "closed"
                            /\ fds[fe] # "closed"
                            /\ ~(IsDesc(o) /\ fo = fe) => c[STDERR_FILENO] = fds[fe]
            /\ o = NoRedirect => c[STDOUT_FILENO] = fds[STDOUT_FILENO]
            /\ e = NoRedirect => c[STDERR_FILENO] = fds[STDERR_FILENO]
            /\ fds[STDOUT_FILENO] = "stdout" /\ fds[STDERR_FILENO] = "stderr"

C19_Witness ==
    /\ IsInit /\ call.out.child.image = "program"
    /\ config.strategy = "posix_spawnp"
    /\ call.attr.out.type = "PIPE" /\ call.attr.err.type = "FILE"
    /\ call.out.cfds[STDOUT_FILENO] = "pipe" /\ call.out.cfds[STDERR_FILENO] = "file"

TokDone == tok.on /\ tok.pc = "done"

\* C15: the command "a b" c\ d is tokenized into exactly the two arguments
\* [a b] and [c d], without the quote characters, and the vector handed to
\* tb_process_init holds these two entries and then the null entry.
C15_ExampleTokens ==
    TokDone /\ tok.cmd.text = Example =>
        /\ tok.argv = << <<"a", SP, "b">>, <<"c", SP, "d">> >>
        /\ tok.saved = 2 /\ tok.terminated

\* the blank-separated words of a text
RECURSIVE WordsFrom(_, _, _, _)
WordsFrom(text, p, cur, acc) ==
    IF p > Len(text) THEN (IF cur # <<>> THEN Append(acc, cur) ELSE acc)
    ELSE IF tb_isspace(text[p])
    THEN WordsFrom(text, p + 1, <<>>, IF cur # <<>> THEN Append(acc, cur) ELSE acc)
    ELSE WordsFrom(text, p + 1, Append(cur, text[p]), acc)
Words(text) == WordsFrom(text, 1, <<>>, <<>>)

\* every quote character of the text is escaped by a single backslash
OnlyEscapedQuotes(text) ==
    /\ \A i \in 1..Len(text) : text[i] \in {DQ, SQ} => i > 1 /\ text[i - 1] = BS
    /\ \A i \in 1..Len(text) : text[i] = BS => i < Len(text) /\ text[i + 1] # BS

\* C16: an escaped quote is a literal character of the argument and neither
\* opens nor closes a quoted span, and a backslash before another character
\* stays; so a command whose quotes are all escaped splits at every blank,
\* each argument being the word with the escaping backslashes removed.
C16_EscapedQuoteIsLiteral ==
    TokDone /\ tok.text /\ OnlyEscapedQuotes(tok.cmd.text) =>
        tok.tokens = [i \in 1..Len(Words(tok.cmd.text)) |-> Translate(Words(tok.cmd.text)[i])]

\* C17: tb_process_init_cmd either calls tb_process_init with a vector that
\* holds every argument of the command, in order, followed by the null
\* entry, or it returns tb_null without creating a process, which (for a
\* command that has arguments) happens only when they do not fit the vector.
C17_NoSilentTruncation ==
    TokDone =>
        /\ tok.spawned => /\ tok.saved = tok.n
                          /\ tok.terminated
                          /\ tok.text => tok.argv = tok.tokens
        /\ ~tok.spawned => /\ ~tok.ret
                           /\ Allocated = 0
                           /\ tok.n > 0 /\ ~tok.cmd.full => tok.n >= tok.m - 1

C17_Witness ==
    TokDone /\ ~tok.spawned /\ ~tok.cmd.full /\ tok.m = TB_MAXU16 /\ tok.saved < tok.n /\ caller = "running"

\* the heuristically grown vector holds all arguments of a command
C17_WitnessGrown ==
    TokDone /\ tok.spawned /\ tok.m > ARGV_BUFFER_MAXN /\ tok.m < TB_MAXU16 /\ tok.saved = tok.n

\* C12: tb_process_wait with timeout > 0 polls without blocking, sleeps at
\* most 60 ms between two polls, never spends more than timeout ms in the
\* call, and returns 0 when that time has passed without a reap.
C12_TimedWaitWithinTimeout ==
    wloop.on /\ wloop.pc \in {"loop", "done"} =>
        /\ \A i \in 1..Len(wloop.sleeps) : wloop.sleeps[i] <= SLICE
        /\ wloop.elapsed <= wloop.timeout
        /\ wloop.pc = "done" /\ wloop.elapsed >= wloop.timeout /\ wloop.result = 0 => wloop.ret = 0

IsRelease == call.op = "release"

\* C11: no tb_process_exit, a second one on the same handle included,
\* accesses or frees handle memory that was already freed, and none changes
\* another live handle.
C11_ReleaseTouchesOnlyLiveHandle ==
    IsRelease => call.was = "live" /\ call.victim = call.h

IsTaskWait == call.op \in {"wait", "waitproc"}

\* the wait was handed to the scheduler: the handle is registered for the
\* task, the task is suspended, and no waitpid ran on the calling thread
Cooperative ==
    /\ call.op = "waitproc"
    /\ [h |-> call.h, task |-> call.task] \in sched.reg
    /\ call.task \in sched.susp /\ sched.cur # call.task

C13_WitnessZero ==
    call.op = "wait" /\ sched.at.timeout = 0 /\ sched.at.self /\ call.result = 0

\* C14: once tb_process_exit has returned no wait registration refers to the
\* released handle and no task is resumed with it; the cancel step comes
\* before the destroy and free steps, and a release without registration or
\* scheduler leaves the registrations as they are.
C14_ReleaseCancelsRegistration ==
    /\ sched.on => \A r \in sched.reg : handles[r.h].mem = "live"
    /\ call.op = "resume" => call.mem = "live"
    /\ IsRelease /\ call.was = "live" =>
          /\ call.steps[Len(call.steps)] = "free"
          /\ \A i \in 1..Len(call.steps) : call.steps[i] = "cancel" => i = 1
          /\ caller = "running"

\* a task released the handle another task was waiting for
C14_Witness ==
    /\ IsRelease /\ call.was = "live"
    /\ sched.on /\ sched.susp # {} /\ sched.reg = {}
    /\ \E t \in sched.susp : t # sched.cur
    /\ handles[call.h].mem = "freed" /\ handles[call.h].child \in Pids
    /\ procs[handles[call.h].child].st = "running"

\* the bytes that reached the read end: those read and those in the pipe
Arrived == pipe.data \o pipe.buf

\* C18: with stdout redirected to the pipe, the bytes the program writes
\* arrive at the read end in order and unchanged; tb_process_wait(h, -1)
\* then returns 1 with status 0 for a program that exits with 0; and the
\* driver's read-then-wait sequence comes to its end.
PipeSafe ==
    pipe.on /\ pipe.pc # "start" =>
        /\ pipe.childout = "pipe"
        /\ Arrived = SubSeq(pipe.msg, 1, pipe.written)
        /\ pipe.pc \in {"exit", "done"} =>
              /\ Arrived = pipe.msg
              /\ pipe.ret = 1
              /\ pipe.code = 0 => pipe.status = 0
C18_PipeDemo == []PipeSafe /\ <>(pipe.on /\ pipe.pc = "done")

C18_Witness ==
    /\ pipe.on /\ pipe.pc = "done" /\ pipe.msg = Hello
    /\ pipe.data = Hello /\ pipe.ret = 1 /\ pipe.status = 0 /\ pipe.code = 0

\* C21: tb_process_init_cmd does not fail because of the length of the
\* translated command: a command that yields an argument is spawned, also
\* when its translated text is exactly one or several blocks long.
C21_AnyLengthSpawns ==
    TokDone /\ HasBlock(tok.cmd) /\ tok.n > 0 /\ tok.ws = 0 => tok.spawned

\* a drain that matched at least one child and then stopped on a child that
\* is not in the set
DrainStopped == IsWaitlist /\ Len(call.reaps) >= 1 /\ call.unmatched # {}

\* C22 (the call itself): when the drain stops on an unmatched child, the
\* records collected so far are returned, one for each matched reap, and
\* every exited child of the set that was not reaped is still a zombie; the
\* unmatched reap discards no child of the set.
C22_AfterUnmatched ==
    DrainStopped =>
        /\ call.ret = Len(call.reaps)
        /\ Len(call.list) = Len(call.reaps)
        /\ \A i \in 1..Len(call.reaps) : call.list[i].pid = call.reaps[i]
        /\ \A p \in (call.zombies \cap SetPids(call.set)) \ RecordPids(call.list) :
              procs[p].st = "zombie"
        /\ call.disc \cap SetPids(call.set) = {}

\* C22 (later calls): a tb_process_waitlist call that reaps an exited child
\* of its set writes a record for it, with the child's exit status.
C22_LaterReports ==
    call'.op = "waitlist" =>
        \A p \in SetPids(call'.set) :
            procs[p].st = "zombie" /\ procs'[p].st = "reaped" =>
                \E i \in 1..Len(call'.list) :
                    /\ call'.list[i].pid = p
                    /\ call'.list[i].status = SaveStatus(procs[p].ws)

\* C22: no matched child's exit is lost because an unmatched child was
\* reaped in between: the records collected are returned, the exited
\* children of the set that were not reaped stay reapable, and a later
\* tb_process_waitlist call reports them.
C22_UnmatchedLosesNoMatched == []C22_AfterUnmatched /\ [][C22_LaterReports]_vars

\* C22 witness: a call that matched one child and stopped on an unmatched
\* one below capacity, with an exited child of the set left to be reaped
C22_Witness ==
    /\ DrainStopped /\ call.ret = 1 /\ call.infomaxn = 2
    /\ \E p \in (call.zombies \cap SetPids(call.set)) \ RecordPids(call.list) :
          procs[p].st = "zombie"

\* C23: tb_process_wait returns 1 and clears pid, and tb_process_waitlist
\* writes a record, only for a child that has terminated; a child that was
\* only stopped by tb_process_suspend is never reported as exited.
C23_OnlyTerminatedReported ==
    /\ IsWait /\ call.ret = 1 => call.rst = "zombie" /\ procs[call.result].st = "reaped"
    /\ IsWaitlist => \A p \in RecordPids(call.list) : procs[p].st = "reaped"

\* C24: with stdout and stderr both redirected to the same descriptor of the
\* caller, the spawn succeeds and both standard streams of the new process
\* refer to that descriptor's target: no duplicate action runs after its
\* source descriptor was closed.
C24_SharedDescriptorReachesBoth ==
    IsInit /\ call.os = NominalOs /\ ~call.attr.suspend
           /\ IsDesc(call.attr.out) /\ IsDesc(call.attr.err)
           /\ tb_pipefile2fd(call.attr.out.obj) = tb_pipefile2fd(call.attr.err.obj) =>
        LET fd == tb_pipefile2fd(call.attr.out.obj)
        IN  /\ call.out.ret
            /\ call.out.cfds[STDOUT_FILENO] = fds[fd]
            /\ call.out.cfds[STDERR_FILENO] = fds[fd]

InLoop == wloop.on /\ wloop.pc = "loop"
Returned == wloop.on /\ wloop.pc = "done"
\* the child of the handle a tb_process_wait call in progress waits for
LoopChild == handles[wloop.h].child

\* C25 (blocking wait returns only if): a tb_process_wait with timeout < 0
\* on a handle whose child was not yet reaped returns only with that child
\* terminated
BlockingReturnsOnlyOnExit ==
    Returned /\ ~IsListLoop /\ wloop.timeout < 0 /\ IsWait
             /\ call.pid > 0 /\ call.own \in {"running", "stopped", "stopseen", "zombie"} =>
        call.result = call.pid /\ call.rst = "zombie" /\ wloop.ret = 1

\* C25: tb_process_wait and tb_process_waitlist with timeout >= 0 always
\* return; tb_process_wait with timeout < 0 on a live handle returns if its
\* child has exited, and only then.
C25_LoopsTerminate ==
    /\ (InLoop /\ wloop.timeout >= 0) ~> Returned
    /\ (InLoop /\ ~IsListLoop /\ wloop.timeout < 0 /\ handles[wloop.h].pid > 0
               /\ LoopChild \in Pids /\ procs[LoopChild].st = "zombie") ~> Returned
    /\ []BlockingReturnsOnlyOnExit

\* C25 witness: a tb_process_waitlist call with timeout 100 that returned 0
\* after sleeping through its time with a child alive all along
C25_Witness ==
    /\ Returned /\ IsListLoop /\ wloop.timeout = 100 /\ wloop.ret = 0 /\ wloop.elapsed >= 100
    /\ \E p \in Pids : procs[p].st = "running"

\* C25 witness: a blocking tb_process_wait that returned with its child's exit
C25_WitnessBlocking ==
    Returned /\ ~IsListLoop /\ wloop.timeout < 0 /\ IsWait /\ call.rst = "zombie" /\ wloop.ret = 1

====
